---- MODULE Spec2Model ----
(***************************************************************************)
(* Model of scripts/test-memory-search.py: the memory-search test harness. *)
(*                                                                         *)
(* Scores are integers in units of 1/Scale (the code rounds every score to *)
(* four decimals).  Strings that are searched for substrings are sequences *)
(* of one-character strings; paths are sequences of path components.       *)
(***************************************************************************)
EXTENDS Integers, Sequences, FiniteSets, TLC

VARIABLES
    pc,              \* position of main: "start", "loop", "exited"
    db_exists,       \* os.path.exists(DB_PATH)
    OPENROUTER_API_KEY, \* TRUE iff the environment value is non-empty
    OPENAI_API_KEY,     \* TRUE iff the environment value is non-empty
    min_score,       \* main's min_score (argv[1] or the default)
    store,           \* rows of the chunks table, in the order the store returns them
    db_opens,        \* number of sqlite3.connect calls made
    db_closed,       \* TRUE once db.close() has run
    results,         \* main's results list
    idx,             \* 1-based index of the next test case of the for loop
    reply,           \* outcome of the last embedding HTTP request
    query_vec,       \* run_test's query_vec of the last case
    vec_results,     \* run_test's vec_results of the last case
    fts_results,     \* run_test's fts_results of the last case
    db_reply,        \* what the store did with the last full-text query
    fts_query,       \* the match expression search_fts built last
    emb_calls,       \* number of get_embedding calls made
    vec_searches,    \* number of search_vector calls made
    fts_searches,    \* number of search_fts calls made
    exit_code,       \* process exit status, -1 while running
    uncaught,        \* TRUE iff the process died of an uncaught exception
    summary,         \* what the summary printed
    sv_limit,        \* limit argument of a direct search_vector call
    sv_out           \* result of a direct search_vector call

vars == <<pc, db_exists, OPENROUTER_API_KEY, OPENAI_API_KEY, min_score, store,
          db_opens, db_closed, results, idx, reply, query_vec, vec_results,
          fts_results, db_reply, fts_query, emb_calls, vec_searches, fts_searches,
          exit_code, uncaught, summary, sv_limit, sv_out>>

-----------------------------------------------------------------------------
(* Bounds of the model *)

MaxChunks == 2      \* rows in the chunks table
MaxSvChunks == 3    \* rows in the chunks table of a direct search_vector call
MaxFts == 1         \* rows the full-text query returns
MaxLimit == 2       \* largest limit of a direct search_vector call

-----------------------------------------------------------------------------
(* Config *)

Scale == 10000                      \* round(score, 4)
EMBEDDING_MODEL == "text-embedding-3-small"
SCOPE_PREFIX == <<"memory", "customers", "test-customer">>
MIN_SCORE_DEFAULT == 3500
MAX_RESULTS == 5
PreviewLen == 200                   \* text[:200]
FloorThreshold == 1500              \* max(0.15, ...)
ThresholdMargin == 500              \* min(scores) - 0.05
Cent == 100                         \* :.2f

TEST_CASES ==
    << [query |-> <<"Can", "I", "get", "on", "a", "call?">>,
        expected |-> <<"A">>],
       [query |-> <<"SOW", "it">>,
        expected |-> <<"b", "a">>] >>

-----------------------------------------------------------------------------
(* Strings *)

Min(a, b) == IF a <= b THEN a ELSE b
Max(a, b) == IF a >= b THEN a ELSE b
Abs(x) == IF x < 0 THEN 0 - x ELSE x

LowerCh(ch) ==
    CASE ch = "A" -> "a"
      [] ch = "B" -> "b"
      [] ch = "C" -> "c"
      [] OTHER -> ch

\* str.lower()
Lower(s) == [k \in 1..Len(s) |-> LowerCh(s[k])]

\* needle in hay
Contains(needle, hay) ==
    \E k \in 0..(Len(hay) - Len(needle)) :
        SubSeq(hay, k + 1, k + Len(needle)) = needle

\* text[:200]
Preview(t) == SubSeq(t, 1, Min(Len(t), PreviewLen))

\* path LIKE 'prefix/%'
PathLike(path, prefix) ==
    /\ Len(path) > Len(prefix)
    /\ SubSeq(path, 1, Len(prefix)) = prefix

-----------------------------------------------------------------------------
(* Vectors *)

RECURSIVE DotUpTo(_, _, _)
DotUpTo(a, b, n) ==
    IF n = 0 THEN 0 ELSE a[n] * b[n] + DotUpTo(a, b, n - 1)

\* sum(x * y for x, y in zip(a, b))
Dot(a, b) == DotUpTo(a, b, Min(Len(a), Len(b)))

\* sum(x * x for x in a)
SumSq(a) == DotUpTo(a, a, Len(a))

\* Largest k in lo..hi with k = 0 or (2k-1)^2 * n <= 4 * Scale^2 * d^2, i.e.
\* d / sqrt(n) rounded to the nearest 1/Scale.
RECURSIVE RoundSearch(_, _, _, _)
RoundSearch(lo, hi, d, n) ==
    IF lo >= hi THEN lo
    ELSE LET mid == (lo + hi + 1) \div 2
         IN IF (2 * mid - 1) * (2 * mid - 1) * n <= 4 * Scale * Scale * d * d
            THEN RoundSearch(mid, hi, d, n)
            ELSE RoundSearch(lo, mid - 1, d, n)

\* round(cosine_similarity(a, b), 4), in units of 1/Scale
cosine_similarity(a, b) ==
    LET dot == Dot(a, b)
        na2 == SumSq(a)
        nb2 == SumSq(b)
    IN IF na2 = 0 \/ nb2 = 0 THEN 0
       ELSE LET k == RoundSearch(0, Scale, Abs(dot), na2 * nb2)
            IN IF dot < 0 THEN 0 - k ELSE k

\* A stored embedding: None, JSON text of a vector, or packed float32 bytes.
NoBlob == [enc |-> "none"]
JsonBlob(v) == [enc |-> "json", vec |-> v]
BytesBlob(v) == [enc |-> "bytes", floats |-> v]

\* truthiness of the embedding column
Truthy(blob) ==
    CASE blob.enc = "none" -> FALSE
      [] blob.enc = "json" -> TRUE
      [] blob.enc = "bytes" -> Len(blob.floats) > 0

blob_to_vec(blob) ==
    CASE blob.enc = "json" -> blob.vec
      [] blob.enc = "bytes" -> blob.floats
      [] OTHER -> <<>>

-----------------------------------------------------------------------------
(* The store *)

InPath == SCOPE_PREFIX \o <<"qa.md">>
OutPath == <<"memory", "customers", "test-customer-2", "qa.md">>

Texts == { <<"a", "c">>, <<"c", "B", "A">> }
Blobs == { JsonBlob(<<1, 0>>), BytesBlob(<<1, 1>>) }

\* Rows of the chunks table: every text and embedding in scope under the
\* configured model, one row without embedding, one row out of scope and one
\* row of another model.
ChunkSet ==
    { [text |-> t, path |-> InPath, model |-> EMBEDDING_MODEL, embedding |-> e] :
        t \in Texts, e \in Blobs }
    \cup { [text |-> <<"c", "B", "A">>, path |-> InPath,
            model |-> EMBEDDING_MODEL, embedding |-> NoBlob],
           [text |-> <<"c", "B", "A">>, path |-> OutPath,
            model |-> EMBEDDING_MODEL, embedding |-> JsonBlob(<<1, 0>>)],
           [text |-> <<"c", "B", "A">>, path |-> InPath,
            model |-> "text-embedding-ada-002", embedding |-> JsonBlob(<<1, 0>>)] }

SeqsUpTo(S, n) == UNION { [1..k -> S] : k \in 0..n }

Stores == SeqsUpTo(ChunkSet, MaxChunks)

\* SELECT ... FROM chunks WHERE model = ? AND path LIKE ?
SqlChunks(db, prefix) ==
    SelectSeq(db, LAMBDA c : c.model = EMBEDDING_MODEL /\ PathLike(c.path, prefix))

-----------------------------------------------------------------------------
(* search_vector *)

\* list.sort(key=score, reverse=True) is stable: a row goes after every row
\* already placed whose score is greater or equal.
RECURSIVE InsertDesc(_, _)
InsertDesc(r, s) ==
    IF s = <<>> THEN <<r>>
    ELSE IF Head(s).score >= r.score
         THEN <<Head(s)>> \o InsertDesc(r, Tail(s))
         ELSE <<r>> \o s

RECURSIVE SortDescUpTo(_, _)
SortDescUpTo(s, n) ==
    IF n = 0 THEN <<>> ELSE InsertDesc(s[n], SortDescUpTo(s, n - 1))

\* Mutant of SortDesc: reverse=True forgotten, the rows come out ascending.
RECURSIVE InsertAsc(_, _)
InsertAsc(r, s) ==
    IF s = <<>> THEN <<r>>
    ELSE IF Head(s).score <= r.score
         THEN <<Head(s)>> \o InsertAsc(r, Tail(s))
         ELSE <<r>> \o s

RECURSIVE SortAscUpTo(_, _)
SortAscUpTo(s, n) ==
    IF n = 0 THEN <<>> ELSE InsertAsc(s[n], SortAscUpTo(s, n - 1))

SortDesc_Ascending(s) == SortAscUpTo(s, Len(s))

SortDesc(s) == SortDescUpTo(s, Len(s))

\* scored[:limit], limit >= 0
Slice(s, limit) == SubSeq(s, 1, Min(Len(s), limit))

\* the loop body of search_vector for the rows whose embedding is truthy
Scored(rows, qv) ==
    LET kept == SelectSeq(rows, LAMBDA c : Truthy(c.embedding))
    IN [k \in 1..Len(kept) |->
          [score |-> cosine_similarity(qv, blob_to_vec(kept[k].embedding)),
           path |-> kept[k].path,
           text |-> Preview(kept[k].text)]]

search_vector(db, qv, prefix, limit) ==
    Slice(SortDesc(Scored(SqlChunks(db, prefix), qv)), limit)

-----------------------------------------------------------------------------
(* search_fts *)

\* " OR ".join(w for w in words if len(w) > 2), or the raw query when empty
FtsQuery(query) ==
    LET kept == SelectSeq(query, LAMBDA w : Len(w) > 2)
    IN IF kept = <<>> THEN [op |-> "raw", words |-> query]
       ELSE [op |-> "OR", words |-> kept]

\* What db.execute(...).fetchall() does for the full-text query: it raises
\* (malformed match expression, no chunks_fts table) or returns at most
\* `limit` rows of the scope.
FtsErrors == { <<"n", "o", " ", "b", "a">> }
FtsRows == { [text |-> <<"c", "B", "A">>, path |-> InPath],
             [text |-> <<"c">>, path |-> InPath] }

FtsReplies(limit) ==
    { [raised |-> TRUE, msg |-> m] : m \in FtsErrors }
    \cup { [raised |-> FALSE, rows |-> rs] : rs \in SeqsUpTo(FtsRows, Min(limit, MaxFts)) }

search_fts(dbReply, query, prefix, limit) ==
    IF dbReply.raised
    THEN << [error |-> dbReply.msg] >>
    ELSE [k \in 1..Len(dbReply.rows) |->
            [text |-> Preview(dbReply.rows[k].text), path |-> dbReply.rows[k].path]]

-----------------------------------------------------------------------------
(* get_embedding *)

\* Outcomes of urlopen(req, timeout=15) ... json.loads(resp.read()):
\*   ok              a well-formed response carrying a vector
\*   URLError        connection failure, HTTP error status, timeout while connecting
\*   TimeoutError    socket timeout while the response is awaited or read
\*   JSONDecodeError a response body that is not the expected JSON
QueryVecs == { <<1, 0>>, <<0, 1>>, <<>> }
HttpReplies ==
    { [kind |-> "ok", embedding |-> v] : v \in QueryVecs }
    \cup { [kind |-> "URLError"], [kind |-> "TimeoutError"], [kind |-> "JSONDecodeError"] }

\* the try/except URLError around the request
Fetch(url, rep) ==
    CASE rep.kind = "ok" -> [kind |-> "return", url |-> url, vec |-> rep.embedding]
      [] rep.kind = "URLError" -> [kind |-> "return", url |-> url, vec |-> <<>>]
      [] OTHER -> [kind |-> "raise", url |-> url, exc |-> rep.kind]

\* Mutant of get_embedding: no credential is treated as a failed request
\* instead of ending the process.
get_embedding_NoExit(orKey, oaKey, rep) ==
    IF orKey THEN Fetch("https://openrouter.ai/api/v1/embeddings", rep)
    ELSE IF oaKey THEN Fetch("https://api.openai.com/v1/embeddings", rep)
    ELSE [kind |-> "return", url |-> "", vec |-> <<>>]

get_embedding(orKey, oaKey, rep) ==
    IF orKey THEN Fetch("https://openrouter.ai/api/v1/embeddings", rep)
    ELSE IF oaKey THEN Fetch("https://api.openai.com/v1/embeddings", rep)
    ELSE [kind |-> "exit", code |-> 1]

-----------------------------------------------------------------------------
(* run_test: step 4, check results *)

\* Mutant of GetText: the error string stands in for a missing text.
GetText_FallsBackToError(r) ==
    IF "text" \in DOMAIN r THEN r.text
    ELSE IF "error" \in DOMAIN r THEN r.error ELSE <<>>

\* r.get("text", "")
GetText(r) == IF "text" \in DOMAIN r THEN r.text ELSE <<>>

Matches(expected, text) == Contains(Lower(expected), Lower(text))

VecPass(expected, vr, ms) ==
    \E k \in 1..Len(vr) : vr[k].score >= ms /\ Matches(expected, vr[k].text)

VecAny(expected, vr) ==
    \E k \in 1..Len(vr) : Matches(expected, vr[k].text)

FtsPass(expected, fr) ==
    \E k \in 1..Len(fr) : Matches(expected, GetText(fr[k]))

TopScore(vr) == IF vr # <<>> THEN vr[1].score ELSE 0

AboveThreshold(vr, ms) == SelectSeq(vr, LAMBDA r : r.score >= ms)

Status(expected, vr, fr, ms) ==
    LET first == IF VecPass(expected, vr, ms) \/ FtsPass(expected, fr)
                 THEN "PASS" ELSE "FAIL"
    IN IF ~VecPass(expected, vr, ms) /\ VecAny(expected, vr)
       THEN "BELOW_THRESHOLD"
       ELSE first

\* the record run_test returns after classifying
Result(query, expected, vr, fr, ms) ==
    [status |-> Status(expected, vr, fr, ms),
     query |-> query,
     top_score |-> TopScore(vr),
     above_threshold |-> Len(AboveThreshold(vr, ms))]

\* Mutant of SkipResult: the status spelled like the other three.
SkipResult_Upper(query) == [status |-> "SKIP", query |-> query]

SkipResult(query) == [status |-> "skip", query |-> query]

-----------------------------------------------------------------------------
(* main: the summary *)

RECURSIVE CountStatus(_, _, _)
CountStatus(rs, st, n) ==
    IF n = 0 THEN 0
    ELSE (IF rs[n].status = st THEN 1 ELSE 0) + CountStatus(rs, st, n - 1)

\* sum(1 for r in results if r["status"] == st)
Count(rs, st) == CountStatus(rs, st, Len(rs))

\* [r["top_score"] for r in results if r["status"] == "BELOW_THRESHOLD"]
BelowScores(rs) ==
    LET below == SelectSeq(rs, LAMBDA r : r.status = "BELOW_THRESHOLD")
    IN [k \in 1..Len(below) |-> below[k].top_score]

\* min(scores), scores non-empty
MinOf(scores) ==
    CHOOSE m \in { scores[k] : k \in 1..Len(scores) } :
        \A k \in 1..Len(scores) : m <= scores[k]

\* f"{x:.2f}": the multiples of 0.01 nearest to x.  At an exact decimal tie
\* the digit printed depends on the binary float that carries x, so both
\* neighbours are possible outcomes.
Fmt2(x) ==
    LET lo == (x \div Cent) * Cent
        r == x - lo
    IN IF 2 * r < Cent THEN {lo}
       ELSE IF 2 * r > Cent THEN {lo + Cent}
       ELSE {lo, lo + Cent}

\* Mutant of Suggested: the highest score taken instead of the lowest.
MaxOf(scores) ==
    CHOOSE m \in { scores[k] : k \in 1..Len(scores) } :
        \A k \in 1..Len(scores) : m >= scores[k]

Suggested_UsesMax(scores) == Max(FloorThreshold, MaxOf(scores) - ThresholdMargin)

\* max(0.15, min(scores) - 0.05)
Suggested(scores) == Max(FloorThreshold, MinOf(scores) - ThresholdMargin)

\* Mutant of ExitStatus: a single FAIL is tolerated.
ExitStatus_OffByOne(failed) == IF failed > 1 THEN 1 ELSE 0

\* sys.exit(1 if failed > 0 else 0)
ExitStatus(failed) == IF failed > 0 THEN 1 ELSE 0

NoSummary == [printed |-> FALSE]

-----------------------------------------------------------------------------
(* State *)

MinScores == { MIN_SCORE_DEFAULT, 7500 }

NoReply == [kind |-> "none"]
NoDbReply == [raised |-> FALSE, rows |-> <<>>]
NoFtsQuery == [op |-> "none", words |-> <<>>]
NoCall == [called |-> FALSE]

Init ==
    /\ pc = "start"
    /\ db_exists \in BOOLEAN
    /\ OPENROUTER_API_KEY \in BOOLEAN
    /\ OPENAI_API_KEY \in BOOLEAN
    /\ min_score \in MinScores
    /\ store \in Stores
    /\ db_opens = 0
    /\ db_closed = FALSE
    /\ results = <<>>
    /\ idx = 1
    /\ reply = NoReply
    /\ query_vec = <<>>
    /\ vec_results = <<>>
    /\ fts_results = <<>>
    /\ db_reply = NoDbReply
    /\ fts_query = NoFtsQuery
    /\ emb_calls = 0
    /\ vec_searches = 0
    /\ fts_searches = 0
    /\ exit_code = -1
    /\ uncaught = FALSE
    /\ summary = NoSummary
    /\ sv_limit = 0
    /\ sv_out = NoCall

env == <<db_exists, OPENROUTER_API_KEY, OPENAI_API_KEY, min_score, store,
         sv_limit, sv_out>>
locals == <<reply, query_vec, vec_results, fts_results, db_reply, fts_query>>
counters == <<emb_calls, vec_searches, fts_searches>>

\* main, the store file is missing: sys.exit(1) before anything else
MainMissingDb ==
    /\ pc = "start"
    /\ ~db_exists
    /\ pc' = "exited"
    /\ exit_code' = 1
    /\ UNCHANGED <<env, locals, counters, db_opens, db_closed, results, idx,
                   uncaught, summary>>

\* main, the store file exists: connect, print the stats, results = []
MainConnect ==
    /\ pc = "start"
    /\ db_exists
    /\ db_opens' = db_opens + 1
    /\ results' = <<>>
    /\ idx' = 1
    /\ pc' = "loop"
    /\ UNCHANGED <<env, locals, counters, db_closed, exit_code, uncaught, summary>>

InLoop == pc = "loop" /\ idx <= Len(TEST_CASES)

\* run_test, no credential configured: get_embedding calls sys.exit(1)
RunTestExit ==
    /\ InLoop
    /\ get_embedding(OPENROUTER_API_KEY, OPENAI_API_KEY, NoReply).kind = "exit"
    /\ emb_calls' = emb_calls + 1
    /\ pc' = "exited"
    /\ exit_code' = 1
    /\ UNCHANGED <<env, locals, vec_searches, fts_searches, db_opens, db_closed,
                   results, idx, uncaught, summary>>

\* run_test, the embedding request raises something other than URLError:
\* nothing catches it, the interpreter prints the traceback and exits 1
RunTestRaise ==
    /\ InLoop
    /\ \E rep \in HttpReplies :
         /\ get_embedding(OPENROUTER_API_KEY, OPENAI_API_KEY, rep).kind = "raise"
         /\ reply' = rep
    /\ emb_calls' = emb_calls + 1
    /\ pc' = "exited"
    /\ exit_code' = 1
    /\ uncaught' = TRUE
    /\ UNCHANGED <<env, query_vec, vec_results, fts_results, db_reply, fts_query,
                   vec_searches, fts_searches, db_opens, db_closed, results, idx,
                   summary>>

\* run_test, empty query vector: the case is skipped; main appends the result
RunTestSkip ==
    /\ InLoop
    /\ \E rep \in HttpReplies :
         LET emb == get_embedding(OPENROUTER_API_KEY, OPENAI_API_KEY, rep)
         IN /\ emb.kind = "return"
            /\ emb.vec = <<>>
            /\ reply' = rep
            /\ query_vec' = emb.vec
    /\ emb_calls' = emb_calls + 1
    /\ results' = Append(results, SkipResult(TEST_CASES[idx].query))
    /\ idx' = idx + 1
    /\ UNCHANGED <<env, vec_results, fts_results, db_reply, fts_query, vec_searches,
                   fts_searches, db_opens, db_closed, pc, exit_code, uncaught,
                   summary>>

\* run_test, non-empty query vector: both searches, the classification; main
\* appends the result
RunTestClassify ==
    /\ InLoop
    /\ \E rep \in HttpReplies, dbReply \in FtsReplies(MAX_RESULTS) :
         LET emb == get_embedding(OPENROUTER_API_KEY, OPENAI_API_KEY, rep)
             tc == TEST_CASES[idx]
         IN /\ emb.kind = "return"
            /\ emb.vec # <<>>
            /\ reply' = rep
            /\ query_vec' = emb.vec
            /\ vec_results' = search_vector(store, emb.vec, SCOPE_PREFIX, MAX_RESULTS)
            /\ fts_query' = FtsQuery(tc.query)
            /\ db_reply' = dbReply
            /\ fts_results' = search_fts(dbReply, tc.query, SCOPE_PREFIX, MAX_RESULTS)
            /\ results' = Append(results,
                    Result(tc.query, tc.expected, vec_results', fts_results', min_score))
    /\ emb_calls' = emb_calls + 1
    /\ vec_searches' = vec_searches + 1
    /\ fts_searches' = fts_searches + 1
    /\ idx' = idx + 1
    /\ UNCHANGED <<env, db_opens, db_closed, pc, exit_code, uncaught, summary>>

\* main after the loop: the summary, db.close(), sys.exit
MainSummary ==
    /\ pc = "loop"
    /\ idx > Len(TEST_CASES)
    /\ LET passed == Count(results, "PASS")
           failed == Count(results, "FAIL")
           below == Count(results, "BELOW_THRESHOLD")
           skipped == Count(results, "skip")
           scores == BelowScores(results)
           base == [printed |-> TRUE, passed |-> passed, failed |-> failed,
                    below |-> below, skipped |-> skipped, total |-> Len(results),
                    skip_line |-> skipped # 0,
                    recommend |-> below > 0]
       IN /\ IF below > 0 /\ scores # <<>>
             THEN \E s \in Fmt2(Suggested(scores)) :
                    summary' = [base EXCEPT !.printed = TRUE] @@
                               [lowest |-> <<MinOf(scores)>>, suggested |-> <<s>>]
             ELSE summary' = base @@ [lowest |-> <<>>, suggested |-> <<>>]
          /\ exit_code' = ExitStatus(failed)
    /\ db_closed' = TRUE
    /\ pc' = "exited"
    /\ UNCHANGED <<env, locals, counters, db_opens, results, idx, uncaught>>

Next ==
    \/ MainMissingDb
    \/ MainConnect
    \/ RunTestExit
    \/ RunTestRaise
    \/ RunTestSkip
    \/ RunTestClassify
    \/ MainSummary

Spec == Init /\ [][Next]_vars

-----------------------------------------------------------------------------
(* search_vector on its own: any store, query vector and limit *)

SvQueryVecs == { <<1, 0>>, <<1, 1>>, <<-1, 0>> }

InitSV ==
    /\ pc = "sv"
    /\ db_exists = TRUE
    /\ OPENROUTER_API_KEY = TRUE
    /\ OPENAI_API_KEY = FALSE
    /\ min_score = MIN_SCORE_DEFAULT
    /\ store \in SeqsUpTo(ChunkSet, MaxSvChunks)
    /\ db_opens = 1
    /\ db_closed = FALSE
    /\ results = <<>>
    /\ idx = 1
    /\ reply = NoReply
    /\ query_vec \in SvQueryVecs
    /\ vec_results = <<>>
    /\ fts_results = <<>>
    /\ db_reply = NoDbReply
    /\ fts_query = NoFtsQuery
    /\ emb_calls = 0
    /\ vec_searches = 0
    /\ fts_searches = 0
    /\ exit_code = -1
    /\ uncaught = FALSE
    /\ summary = NoSummary
    /\ sv_limit \in 0..MaxLimit
    /\ sv_out = NoCall

\* search_vector(db, query_vec, SCOPE_PREFIX, limit) and run_test's top_score
SearchVectorCall ==
    /\ pc = "sv"
    /\ LET rows == search_vector(store, query_vec, SCOPE_PREFIX, sv_limit)
       IN sv_out' = [called |-> TRUE, rows |-> rows, top_score |-> TopScore(rows)]
    /\ vec_searches' = vec_searches + 1
    /\ pc' = "sv_done"
    /\ UNCHANGED <<db_exists, OPENROUTER_API_KEY, OPENAI_API_KEY, min_score, store,
                   sv_limit, locals, emb_calls, fts_searches, db_opens, db_closed,
                   results, idx, exit_code, uncaught, summary>>

NextSV == SearchVectorCall

SpecSV == InitSV /\ [][NextSV]_vars

-----------------------------------------------------------------------------
(* Properties *)

Statuses == { "skip", "PASS", "BELOW_THRESHOLD", "FAIL" }

NumResults == Len(results)

\* The last case main recorded went through both searches, so vec_results,
\* fts_results and db_reply are the ones of that case.
LastClassified ==
    /\ pc \in { "loop", "exited" }
    /\ NumResults > 0
    /\ results[NumResults].status # "skip"

LastExpected == TEST_CASES[NumResults].expected
LastStatus == results[NumResults].status

HasStatus(st) == \E k \in 1..NumResults : results[k].status = st

\* C1: a classified case is PASS whenever the expected substring occurs in a
\* vector result scoring at or above min_score or in a lexical result.
C1_LexicalOrVectorMatchPasses ==
    LastClassified =>
        ( ( VecPass(LastExpected, vec_results, min_score)
            \/ FtsPass(LastExpected, fts_results) )
          => LastStatus = "PASS" )

\* C2: once the summary is printed the exit code is 1 exactly when some
\* recorded result is FAIL, and 0 otherwise.
C2_ExitCodeIffFail ==
    summary.printed =>
        /\ pc = "exited"
        /\ exit_code \in {0, 1}
        /\ (exit_code = 1) <=> HasStatus("FAIL")

C2_Witness ==
    /\ summary.printed
    /\ exit_code = 1
    /\ HasStatus("PASS")
    /\ HasStatus("FAIL")

\* C3: every failure of the embedding request (network error, timeout,
\* malformed response) is caught: nothing is raised and the case is recorded
\* as skip.
FailureKinds == { "URLError", "TimeoutError", "JSONDecodeError" }

C3_EmbeddingFailureIsSkipped ==
    reply.kind \in FailureKinds =>
        /\ ~uncaught
        /\ NumResults > 0
        /\ results[NumResults].status = "skip"

C5_ClosedOnEveryExit ==
    /\ db_opens <= 1
    /\ (pc = "exited" /\ db_opens > 0) => db_closed

\* C6: with the store file missing or no credential set the process exits 1
\* with no case classified or recorded and no summary; with the store file
\* missing no embedding request is attempted either.
FatalPrecondition ==
    \/ ~db_exists
    \/ (~OPENROUTER_API_KEY /\ ~OPENAI_API_KEY)

C6_FatalPreconditionExits ==
    (pc \in { "start", "loop", "exited" } /\ FatalPrecondition) =>
        /\ results = <<>>
        /\ ~summary.printed
        /\ vec_searches = 0 /\ fts_searches = 0
        /\ reply = NoReply
        /\ pc = "exited" => exit_code = 1
        /\ pc # "exited" => ENABLED Next
        /\ ~db_exists => emb_calls = 0

C6_Witness ==
    /\ db_exists
    /\ ~OPENROUTER_API_KEY /\ ~OPENAI_API_KEY
    /\ pc = "exited"
    /\ exit_code = 1
    /\ emb_calls = 1

\* C7: when the full-text query raises, search_fts returns a single error
\* marker and the case gets the status it would get with no lexical result.
C7_FtsErrorIsNoMatch ==
    (LastClassified /\ db_reply.raised) =>
        /\ Len(fts_results) = 1
        /\ DOMAIN fts_results[1] = { "error" }
        /\ fts_results[1].error = db_reply.msg
        /\ LastStatus = Status(LastExpected, vec_results, <<>>, min_score)
        /\ results[NumResults].top_score = TopScore(vec_results)

C7_Witness ==
    /\ LastClassified
    /\ db_reply.raised
    /\ NumResults = Len(TEST_CASES)
    /\ LastStatus = "FAIL"
    /\ Contains(LastExpected, db_reply.msg)

\* C8, as stated: a suggestion is printed exactly when some result is
\* BELOW_THRESHOLD and the printed value equals max(0.15, m - 0.05), m the
\* smallest top_score of the BELOW_THRESHOLD results.
C8_SuggestionEqualsFormula ==
    summary.printed =>
        /\ (summary.suggested # <<>>) <=> HasStatus("BELOW_THRESHOLD")
        /\ summary.suggested # <<>> =>
              summary.suggested[1] =
                  Max(FloorThreshold, MinOf(BelowScores(results)) - ThresholdMargin)

\* C8, amended: a suggestion is printed exactly when some result is
\* BELOW_THRESHOLD and the printed value is max(0.15, m - 0.05) rounded to
\* two decimals: a multiple of 0.01 at most 0.005 away from it.
C8_SuggestionIsFormulaToTwoDecimals ==
    summary.printed =>
        /\ (summary.suggested # <<>>) <=> HasStatus("BELOW_THRESHOLD")
        /\ summary.suggested # <<>> =>
              LET v == Max(FloorThreshold,
                           MinOf(BelowScores(results)) - ThresholdMargin)
                  s == summary.suggested[1]
              IN /\ s % Cent = 0
                 /\ 2 * Abs(s - v) <= Cent
                 /\ summary.lowest = << MinOf(BelowScores(results)) >>

C8_Witness ==
    /\ summary.printed
    /\ summary.below = Len(TEST_CASES)
    /\ results[1].top_score # results[2].top_score
    /\ summary.lowest = <<7071>>
    /\ summary.suggested = <<6600>>

\* C9: search_vector returns at most limit rows in non-increasing score
\* order, a highest-scoring selection of the rows in scope with the
\* configured model and a non-empty embedding; with a positive limit the top
\* score is the maximum over those rows, 0 when there are none.
Eligible ==
    { k \in 1..Len(store) :
        /\ store[k].model = EMBEDDING_MODEL
        /\ Len(store[k].path) > Len(SCOPE_PREFIX)
        /\ \A j \in 1..Len(SCOPE_PREFIX) : store[k].path[j] = SCOPE_PREFIX[j]
        /\ store[k].embedding # NoBlob }

ScoreOf(k) ==
    cosine_similarity(query_vec,
        IF store[k].embedding.enc = "json" THEN store[k].embedding.vec
        ELSE store[k].embedding.floats)

C9_TopLimitByScore ==
    sv_out.called =>
        LET rows == sv_out.rows
            n == Len(rows)
        IN /\ n <= sv_limit
           /\ n = Min(sv_limit, Cardinality(Eligible))
           /\ \A a, b \in 1..n : a < b => rows[a].score >= rows[b].score
           /\ \E f \in [1..n -> Eligible] :
                /\ \A a, b \in 1..n : a # b => f[a] # f[b]
                /\ \A a \in 1..n :
                     /\ rows[a].score = ScoreOf(f[a])
                     /\ rows[a].text = store[f[a]].text
                     /\ rows[a].path = store[f[a]].path
                /\ \A k \in Eligible \ { f[a] : a \in 1..n } :
                     \A a \in 1..n : ScoreOf(k) <= rows[a].score
           /\ sv_limit >= 1 =>
                /\ Eligible = {} => sv_out.top_score = 0
                /\ Eligible # {} =>
                     /\ \E k \in Eligible : sv_out.top_score = ScoreOf(k)
                     /\ \A k \in Eligible : sv_out.top_score >= ScoreOf(k)

C9_Witness ==
    /\ sv_out.called
    /\ sv_limit >= 1
    /\ Cardinality(Eligible) > sv_limit
    /\ Cardinality(Eligible) < Len(store)
    /\ Len(sv_out.rows) = sv_limit
    /\ 1 \in Eligible
    /\ ScoreOf(1) < sv_out.top_score

\* C10: a printed suggested threshold is strictly lower than the min_score
\* of the run.
C10_SuggestionBelowMinScore ==
    (summary.printed /\ summary.suggested # <<>>) =>
        summary.suggested[1] < min_score

====
